---- MODULE Spec2Model ----
(***************************************************************************)
(* Model of ResilientStreamRecorder (src/index.js, lines 71-513): a        *)
(* recorder object driven by the Node.js event loop.  Every action below   *)
(* is one event-loop task: a caller's method call, a timer, or the         *)
(* callback of a subprocess event or of a finished availability check,     *)
(* together with the promise continuations (microtasks) it triggers.       *)
(*                                                                         *)
(* Not modelled (status/logging only, no control flow depends on them):    *)
(* lastSuccessfulCheck, consecutiveFailures, startTime, the stderr "data"  *)
(* handler of the capture subprocess, getStatus.                           *)
(*                                                                         *)
(* The retry-loop recorder of src/unnamed/part_000 is a second program; it *)
(* has its own variables, actions and specification (SpecLoop) below.      *)
(***************************************************************************)
EXTENDS Integers, Sequences, FiniteSets, TLC

\* ---------------------------------------------------------------- bounds
\* number of "bad" environment events (unavailable probe answer, failed
\* capture attempt, capture spawn error) the environment may produce
MaxFaults == 2
\* number of availability checks in flight, per kind (quick, verification)
MaxInFlight == 1
\* number of deep-probe entities (ffprobe subprocesses alive and pending
\* re-arm timers of the deep-probe loop)
MaxDeep == 2

\* durationMinutes arguments explored, in hundredths of a minute
\* (startRecording(0.1), startRecording(0.15): targets of 6000, 9000 ms)
DurationCentiMinutes == {10, 15}
\* wall-clock times (ms) a capture subprocess may have run when it closes
ElapsedSet == {3500, 6000}

VARIABLES
    \* fields of ResilientStreamRecorder
    recordings, totalDurationMs, recordedDurationMs, isRecording,
    isMonitoring, currentProcess, isStreamAvailable, quickCheckInterval,
    \* event-loop and operating-system state
    sr,            \* position of the startRecording call
    procs,         \* capture subprocesses whose close event is pending
    contTimers,    \* pending 100 ms continuation timers, per chain flag
    quickChecks,   \* quick-check callbacks awaiting checkStreamAvailability
    probes,        \* ffprobe subprocesses alive
    verifies,      \* deep-probe verification checks awaiting their answer
    rearmTimers,   \* pending re-arm timers of the deep-probe loop
    mergeProcess,  \* the concatenation subprocess
    files,         \* indices i whose segment_<sessionId>_<i>.mp4 exists
    concatFile,    \* the manifest concat_<sessionId>.txt
    finalFile,     \* whether the final output file exists
    \* history
    stopped,       \* stop() has been called
    maxIndex,      \* largest segment index given to an attempt so far
    mergeAt,       \* what mergeRecordings saw when it was invoked
    faults,        \* bad environment events so far
    \* the retry-loop recorder (src/unnamed/part_000)
    totalRecorded, attempt,
    loopPc,        \* position of its startRecording loop
    loopFiles,     \* attempts whose segment_<uuid>.mp4 exists
    remaining      \* argument of the last recordSegment call (0: none yet)

vars == << recordings, totalDurationMs, recordedDurationMs, isRecording,
           isMonitoring, currentProcess, isStreamAvailable,
           quickCheckInterval, sr, procs, contTimers, quickChecks, probes,
           verifies, rearmTimers, mergeProcess, files,
           concatFile, finalFile, stopped, maxIndex, mergeAt, faults,
           totalRecorded, attempt, loopPc, loopFiles, remaining >>

loopVars == << totalRecorded, attempt, loopPc, loopFiles, remaining >>

\* the recorder and its environment as one record, so that a method that
\* calls other methods is the composition of their effects
Self ==
    [ recordings |-> recordings, totalDurationMs |-> totalDurationMs,
      recordedDurationMs |-> recordedDurationMs, isRecording |-> isRecording,
      isMonitoring |-> isMonitoring, currentProcess |-> currentProcess,
      isStreamAvailable |-> isStreamAvailable,
      quickCheckInterval |-> quickCheckInterval, sr |-> sr, procs |-> procs,
      contTimers |-> contTimers, quickChecks |-> quickChecks,
      probes |-> probes,
      verifies |-> verifies, rearmTimers |-> rearmTimers,
      mergeProcess |-> mergeProcess, files |-> files,
      concatFile |-> concatFile, finalFile |-> finalFile,
      stopped |-> stopped, maxIndex |-> maxIndex, mergeAt |-> mergeAt,
      faults |-> faults,
      ok |-> TRUE ]

\* the step's result: every variable takes its value from s; s.ok is false
\* when the step would exceed a bound of the exploration
Becomes(s) ==
    /\ s.ok
    /\ recordings' = s.recordings
    /\ totalDurationMs' = s.totalDurationMs
    /\ recordedDurationMs' = s.recordedDurationMs
    /\ isRecording' = s.isRecording
    /\ isMonitoring' = s.isMonitoring
    /\ currentProcess' = s.currentProcess
    /\ isStreamAvailable' = s.isStreamAvailable
    /\ quickCheckInterval' = s.quickCheckInterval
    /\ sr' = s.sr
    /\ procs' = s.procs
    /\ contTimers' = s.contTimers
    /\ quickChecks' = s.quickChecks
    /\ probes' = s.probes
    /\ verifies' = s.verifies
    /\ rearmTimers' = s.rearmTimers
    /\ mergeProcess' = s.mergeProcess
    /\ files' = s.files
    /\ concatFile' = s.concatFile
    /\ finalFile' = s.finalFile
    /\ stopped' = s.stopped
    /\ maxIndex' = s.maxIndex
    /\ mergeAt' = s.mergeAt
    /\ faults' = s.faults
    /\ UNCHANGED loopVars

NoMerge == [ invoked |-> FALSE, alive |-> 0, recordings |-> << >>,
             recordedDurationMs |-> 0, files |-> {} ]

Init ==
    /\ recordings = << >>
    /\ totalDurationMs = 0
    /\ recordedDurationMs = 0
    /\ isRecording = FALSE
    /\ isMonitoring = FALSE
    /\ currentProcess = 0
    /\ isStreamAvailable = FALSE
    /\ quickCheckInterval = FALSE
    /\ sr = "idle"
    /\ procs = {}
    /\ contTimers = [c \in BOOLEAN |-> 0]
    /\ quickChecks = 0
    /\ probes = 0
    /\ verifies = 0
    /\ rearmTimers = 0
    /\ mergeProcess = "none"
    /\ files = {}
    /\ concatFile = [exists |-> FALSE, content |-> << >>]
    /\ finalFile = FALSE
    /\ stopped = FALSE
    /\ maxIndex = -1
    /\ mergeAt = NoMerge
    /\ faults = 0
    /\ totalRecorded = 0
    /\ attempt = 1
    /\ loopPc = "loop"
    /\ loopFiles = {}
    /\ remaining = 0

\* ------------------------------------------------------------- helpers
RECURSIVE SumDurations(_)
SumDurations(rs) ==
    IF rs = << >> THEN 0 ELSE Head(rs).duration + SumDurations(Tail(rs))

\* insert r after the last element whose index is <= r.index
RECURSIVE InsertByIndex(_, _)
InsertByIndex(sorted, r) ==
    IF sorted = << >> THEN << r >>
    ELSE IF Head(sorted).index - r.index > 0
         THEN << r >> \o sorted
         ELSE << Head(sorted) >> \o InsertByIndex(Tail(sorted), r)

\* Array.prototype.sort((a, b) => a.index - b.index): stable, ascending
RECURSIVE SortByIndex(_)
SortByIndex(rs) ==
    IF rs = << >> THEN << >>
    ELSE InsertByIndex(SortByIndex(SubSeq(rs, 1, Len(rs) - 1)), rs[Len(rs)])

FilesOf(rs) == [i \in 1..Len(rs) |-> rs[i].file]

DeepCount(s) == s.probes + s.rearmTimers

\* Math.ceil(a / b) for an integer a and a positive integer b
Ceil(a, b) == -((-a) \div b)

\* the smallest process id no live capture subprocess uses
NewPid(s) ==
    CHOOSE n \in 1..(Cardinality(s.procs) + 1) :
        /\ \A p \in s.procs : p.pid # n
        /\ \A m \in 1..(n - 1) : \E p \in s.procs : p.pid = m

\* ------------------------------------------------ methods of the recorder
stopStreamMonitoring(s) ==
    [s EXCEPT !.isMonitoring = FALSE, !.quickCheckInterval = FALSE]

startContinuousMonitoring(s) ==
    IF ~s.isMonitoring \/ s.isRecording THEN s
    ELSE [s EXCEPT !.probes = @ + 1,
                   !.ok = @ /\ DeepCount(s) < MaxDeep]

startStreamMonitoring(s) ==
    IF s.isMonitoring THEN s
    ELSE startContinuousMonitoring(
            [s EXCEPT !.isMonitoring = TRUE, !.quickCheckInterval = TRUE])

mergeRecordings(s0) ==
    LET s == [s0 EXCEPT !.mergeAt = [ invoked |-> TRUE,
                                      alive |-> Cardinality(s0.procs),
                                      recordings |-> s0.recordings,
                                      recordedDurationMs |-> s0.recordedDurationMs,
                                      files |-> s0.files ]]
    IN  IF Len(s.recordings) = 0
        THEN [s EXCEPT !.sr = "rejected"]
        ELSE IF Len(s.recordings) = 1
        THEN IF s.recordings[1].file \in s.files
             THEN [s EXCEPT !.files = @ \ {s.recordings[1].file},
                            !.finalFile = TRUE,
                            !.sr = "resolved"]
             ELSE [s EXCEPT !.sr = "rejected"]   \* renameSync throws
        ELSE LET sorted == SortByIndex(s.recordings)
             IN  [s EXCEPT !.recordings = sorted,
                           !.concatFile = [exists |-> TRUE,
                                           content |-> FilesOf(sorted)],
                           !.mergeProcess = "running",
                           !.sr = "merge"]

\* checkCompletion inside startRecording (lines 255-267)
checkCompletion(s) ==
    IF s.recordedDurationMs >= s.totalDurationMs /\ ~s.isRecording
    THEN mergeRecordings(stopStreamMonitoring(s))
    ELSE [s EXCEPT !.sr = "poll"]

\* the promise awaited by startRecording (line 247) resolves: startRecording
\* goes on to its completion loop in the same turn of the event loop
resolveSegment(s, chain) ==
    IF chain /\ s.sr = "awaitSegment" THEN checkCompletion(s) ELSE s

\* recordSegment with the -t argument rounded down
recordSegmentFloor(s, chain) ==
    IF s.recordedDurationMs >= s.totalDurationMs
    THEN resolveSegment(s, chain)
    ELSE LET remainingMs == s.totalDurationMs - s.recordedDurationMs
             segmentIndex == Len(s.recordings)
         IN  [s EXCEPT !.isRecording = TRUE,
                       !.currentProcess = NewPid(s),
                       !.procs = @ \cup {[ pid |-> NewPid(s),
                                           index |-> segmentIndex,
                                           t |-> remainingMs \div 1000,
                                           chain |-> chain,
                                           st |-> "running" ]},
                       !.maxIndex = IF segmentIndex > @
                                    THEN segmentIndex ELSE @]

\* recordSegment (lines 281-423) up to the spawn; t is the value of the -t
\* argument (lines 322-323)
recordSegment(s, chain) ==
    IF s.recordedDurationMs >= s.totalDurationMs
    THEN resolveSegment(s, chain)
    ELSE LET remainingMs == s.totalDurationMs - s.recordedDurationMs
             segmentIndex == Len(s.recordings)
         IN  [s EXCEPT !.isRecording = TRUE,
                       !.currentProcess = NewPid(s),
                       !.procs = @ \cup {[ pid |-> NewPid(s),
                                           index |-> segmentIndex,
                                           t |-> Ceil(remainingMs, 1000),
                                           chain |-> chain,
                                           st |-> "running" ]},
                       !.maxIndex = IF segmentIndex > @
                                    THEN segmentIndex ELSE @]

resumeRecording(s) ==
    IF s.isRecording THEN s
    ELSE IF s.recordedDurationMs >= s.totalDurationMs THEN s
    ELSE recordSegment(stopStreamMonitoring(s), FALSE)

\* --------------------------------------------------------------- actions
\* startRecording(durationMinutes) up to its first await
StartRecording(centi) ==
    /\ sr = "idle"
    /\ Becomes([Self EXCEPT !.totalDurationMs = (centi * 60 * 1000) \div 100,
                            !.recordedDurationMs = 0,
                            !.recordings = << >>,
                            !.sr = "check"])

\* the initial checkStreamAvailability answers; startRecording runs on to
\* its next await or to the installation of the completion loop
InitialCheckDone(isInitiallyAvailable) ==
    /\ sr = "check"
    /\ isInitiallyAvailable \/ faults < MaxFaults
    /\ LET s1 == [Self EXCEPT !.isStreamAvailable = isInitiallyAvailable,
                              !.faults = IF isInitiallyAvailable
                                         THEN @ ELSE @ + 1]
       IN  IF isInitiallyAvailable
           THEN Becomes(recordSegment([s1 EXCEPT !.sr = "awaitSegment"], TRUE))
           ELSE Becomes(checkCompletion(startStreamMonitoring(s1)))

\* the 2 s interval fires; nothing happens while recording (line 146)
QuickCheckTick ==
    /\ quickCheckInterval
    /\ ~isRecording
    /\ quickChecks < MaxInFlight
    /\ Becomes([Self EXCEPT !.quickChecks = @ + 1])

\* the quick check's checkStreamAvailability answers (lines 148-166)
QuickCheckDone(isAvailable) ==
    /\ quickChecks > 0
    /\ isAvailable \/ faults < MaxFaults
    /\ LET wasAvailable == isStreamAvailable
           s1 == [Self EXCEPT !.quickChecks = @ - 1,
                              !.isStreamAvailable = isAvailable,
                              !.faults = IF isAvailable THEN @ ELSE @ + 1]
       IN  IF isAvailable /\ ~wasAvailable
           THEN Becomes(resumeRecording(s1))
           ELSE Becomes(s1)

\* ffprobe's close handler resuming on its own exit code, without the
\* verification check
ProbeCloseResumes(code) ==
    /\ probes > 0
    /\ LET s1 == [Self EXCEPT !.probes = @ - 1, !.rearmTimers = @ + 1]
       IN  IF code = 0 /\ ~isStreamAvailable /\ ~isRecording
           THEN Becomes(resumeRecording(
                           [s1 EXCEPT !.isStreamAvailable = TRUE]))
           ELSE Becomes(s1)

\* ffprobe closes with its exit code (lines 189-210)
ProbeClose(code) ==
    /\ probes > 0
    /\ LET s1 == [Self EXCEPT !.probes = @ - 1, !.rearmTimers = @ + 1]
       IN  IF code = 0 /\ ~isStreamAvailable
           THEN Becomes([s1 EXCEPT !.verifies = @ + 1,
                                   !.ok = verifies < MaxInFlight])
           ELSE Becomes(s1)

\* ffprobe could not be spawned: the error handler arms a 2 s timer
\* (lines 212-219) and the close event Node emits right after it for the
\* same child, with a non-zero code, arms a 1 s timer (lines 205-209)
ProbeError ==
    /\ probes > 0
    /\ DeepCount(Self) < MaxDeep
    /\ Becomes([Self EXCEPT !.probes = @ - 1, !.rearmTimers = @ + 2])

\* the verification check started by a successful ffprobe answers
\* (lines 193-201)
VerifyDone(isAvailable) ==
    /\ verifies > 0
    /\ isAvailable \/ faults < MaxFaults
    /\ LET s1 == [Self EXCEPT !.verifies = @ - 1,
                              !.faults = IF isAvailable THEN @ ELSE @ + 1]
       IN  IF isAvailable /\ ~isRecording
           THEN Becomes(resumeRecording(
                           [s1 EXCEPT !.isStreamAvailable = TRUE]))
           ELSE Becomes(s1)

\* a re-arm timer of the deep-probe loop fires (lines 205-209, 214-218)
RearmTimerFire ==
    /\ rearmTimers > 0
    /\ LET s1 == [Self EXCEPT !.rearmTimers = @ - 1]
       IN  IF isMonitoring /\ ~isRecording
           THEN Becomes(startContinuousMonitoring(s1))
           ELSE Becomes(s1)

\* a running capture subprocess creates its output file (-y segmentFile)
CaptureWrites(p) ==
    /\ p \in procs
    /\ p.index \notin files
    /\ Becomes([Self EXCEPT !.files = @ \cup {p.index}])

\* the success branch with a 1-based index in the pushed entry
captureSucceededOneBased(s, p, segmentDuration) ==
    LET s2 == [s EXCEPT !.recordings =
                            Append(@, [ file |-> p.index,
                                        duration |-> segmentDuration,
                                        index |-> p.index + 1 ]),
                        !.recordedDurationMs = @ + segmentDuration]
    IN  IF s2.recordedDurationMs < s2.totalDurationMs
        THEN [s2 EXCEPT !.contTimers[p.chain] = @ + 1]
        ELSE resolveSegment(s2, p.chain)

\* the success branch adding the duration in whole seconds
captureSucceededWholeSeconds(s, p, segmentDuration) ==
    LET s2 == [s EXCEPT !.recordings =
                            Append(@, [ file |-> p.index,
                                        duration |-> segmentDuration,
                                        index |-> p.index ]),
                        !.recordedDurationMs =
                            @ + (segmentDuration \div 1000) * 1000]
    IN  IF s2.recordedDurationMs < s2.totalDurationMs
        THEN [s2 EXCEPT !.contTimers[p.chain] = @ + 1]
        ELSE resolveSegment(s2, p.chain)

\* the success branch of the close handler (lines 379-394)
captureSucceeded(s, p, segmentDuration) ==
    LET s2 == [s EXCEPT !.recordings =
                            Append(@, [ file |-> p.index,
                                        duration |-> segmentDuration,
                                        index |-> p.index ]),
                        !.recordedDurationMs = @ + segmentDuration]
    IN  IF s2.recordedDurationMs < s2.totalDurationMs
        THEN [s2 EXCEPT !.contTimers[p.chain] = @ + 1]
        ELSE resolveSegment(s2, p.chain)

\* the failure branch without "this.isStreamAvailable = false" (line 407)
captureFailedStillAvailable(s, p) ==
    resolveSegment(
        startStreamMonitoring([s EXCEPT !.files = @ \ {p.index}]),
        p.chain)

\* the failure branch without startStreamMonitoring (line 408)
captureFailedNoMonitoring(s, p) ==
    resolveSegment([s EXCEPT !.files = @ \ {p.index},
                             !.isStreamAvailable = FALSE],
                   p.chain)

\* the failure branch of the close handler (lines 395-410)
captureFailed(s, p) ==
    resolveSegment(
        startStreamMonitoring([s EXCEPT !.files = @ \ {p.index},
                                        !.isStreamAvailable = FALSE]),
        p.chain)

\* the close handler of a capture subprocess (lines 369-411); a close that
\* is not a success uses up one of the environment's faults, unless the
\* subprocess was signalled by stop()
CaptureClose(p, code, segmentDuration) ==
    /\ p \in procs
    /\ LET success == code = 0 /\ p.index \in files
           fault == ~success /\ p.st = "running"
           s1 == [Self EXCEPT !.procs = @ \ {p},
                              !.isRecording = FALSE,
                              !.faults = IF fault THEN @ + 1 ELSE @]
       IN  /\ fault => faults < MaxFaults
           /\ IF success
              THEN Becomes(captureSucceeded(s1, p, segmentDuration))
              ELSE Becomes(captureFailed(s1, p))

\* a capture subprocess could not be spawned: the error handler
\* (lines 413-421), then the close handler (lines 369-411) that Node runs
\* right after it for the same child, with a non-zero code
CaptureError(p) ==
    /\ p \in procs
    /\ p.st = "running"
    /\ faults < MaxFaults
    /\ LET s1 == resolveSegment(
                    startStreamMonitoring(
                        [Self EXCEPT !.procs = @ \ {p},
                                     !.isRecording = FALSE,
                                     !.isStreamAvailable = FALSE,
                                     !.faults = @ + 1]),
                    p.chain)
       IN  Becomes(captureFailed([s1 EXCEPT !.isRecording = FALSE], p))

\* the 100 ms timer set after a successful segment fires (line 391)
ContinueTimerFire(chain) ==
    /\ contTimers[chain] > 0
    /\ Becomes(recordSegment([Self EXCEPT !.contTimers[chain] = @ - 1], chain))

\* the 1 s timer of the completion loop fires (line 265)
CheckCompletionTimer ==
    /\ sr = "poll"
    /\ Becomes(checkCompletion(Self))

\* what the close handler of the concatenation subprocess does to the
\* file system before it looks at the exit code (lines 471-476)
mergeCleanup(s) ==
    [s EXCEPT !.mergeProcess = "closed",
              !.concatFile = [@ EXCEPT !.exists = FALSE],
              !.files = @ \ {s.recordings[i].file : i \in 1..Len(s.recordings)}]

\* the concatenation subprocess closes (lines 470-484); it can only exit 0
\* when every file of the manifest is there to read
MergeClose(code) ==
    /\ mergeProcess = "running"
    /\ code = 0 => \A i \in 1..Len(concatFile.content) :
                       concatFile.content[i] \in files
    /\ Becomes([mergeCleanup(Self) EXCEPT
          !.finalFile = @ \/ code = 0,
          !.sr = IF @ = "merge"
                 THEN (IF code = 0 THEN "resolved" ELSE "rejected")
                 ELSE @])

\* the concatenation subprocess could not be spawned: the promise is
\* rejected (line 486), then the close handler runs with a non-zero code
MergeError ==
    /\ mergeProcess = "running"
    /\ Becomes([mergeCleanup(Self) EXCEPT !.sr = "rejected"])

\* stop() (lines 490-497), called once on a session by the recorder's user
Stop ==
    /\ sr # "idle"
    /\ ~stopped
    /\ LET s1 == stopStreamMonitoring([Self EXCEPT !.stopped = TRUE])
       IN  IF currentProcess # 0
           THEN Becomes([s1 EXCEPT
                   !.procs = {IF p.pid = currentProcess /\ p.st = "running"
                              THEN [p EXCEPT !.st = "signalled"]
                              ELSE p : p \in procs},
                   !.isRecording = FALSE])
           ELSE Becomes(s1)

ExitCodes == {0, 1}

Environment ==
    \/ \E centi \in DurationCentiMinutes : StartRecording(centi)
    \/ \E a \in BOOLEAN : InitialCheckDone(a)
    \/ QuickCheckTick
    \/ \E a \in BOOLEAN : QuickCheckDone(a)
    \/ \E c \in ExitCodes : ProbeClose(c)
    \/ ProbeError
    \/ \E a \in BOOLEAN : VerifyDone(a)
    \/ RearmTimerFire
    \/ \E p \in procs : CaptureWrites(p)
    \/ \E p \in procs, c \in ExitCodes, d \in ElapsedSet : CaptureClose(p, c, d)
    \/ \E p \in procs : CaptureError(p)
    \/ \E chain \in BOOLEAN : ContinueTimerFire(chain)
    \/ CheckCompletionTimer
    \/ \E c \in ExitCodes : MergeClose(c)
    \/ MergeError

Next ==
    \/ Environment
    \/ Stop

Spec == Init /\ [][Next]_vars

\* a session on which stop() is never called
SpecNoStop == Init /\ [][Environment]_vars

QuickCheckAnswers == \E a \in BOOLEAN : QuickCheckDone(a)
ProbeCloses == \E c \in ExitCodes : ProbeClose(c)
VerifyAnswers == \E a \in BOOLEAN : VerifyDone(a)
CaptureCloses ==
    \E p \in procs, c \in ExitCodes, d \in ElapsedSet : CaptureClose(p, c, d)
MergeCloses == \E c \in ExitCodes : MergeClose(c)

\* Timers fire, pending checks answer and subprocesses close eventually.
\* Weak fairness of an action A is WF_vars(A); where it is written
\* []<>~E \/ []<><<A>>_vars, E is ENABLED <<A>>_vars written out as a state
\* predicate (E implies that A can be taken and changes the state).
Fairness ==
    /\ WF_vars(\E a \in BOOLEAN : InitialCheckDone(a))
    /\ WF_vars(QuickCheckTick)
    /\ WF_vars(\E p \in procs : CaptureWrites(p))
    /\ WF_vars(\E chain \in BOOLEAN : ContinueTimerFire(chain))
    /\ ([]<>(~(quickChecks > 0)) \/ []<><<QuickCheckAnswers>>_vars)
    /\ ([]<>(~(probes > 0)) \/ []<><<ProbeCloses>>_vars)
    /\ ([]<>(~(verifies > 0)) \/ []<><<VerifyAnswers>>_vars)
    /\ ([]<>(~(rearmTimers > 0)) \/ []<><<RearmTimerFire>>_vars)
    \* a subprocess whose output file is there can close with code 0
    /\ ([]<>(~(\E p \in procs : p.index \in files))
           \/ []<><<CaptureCloses>>_vars)
    \* the timer's firing changes the state exactly when the completion
    \* loop is armed and its condition (lines 256-259) holds
    /\ ([]<>(~(/\ sr = "poll"
               /\ recordedDurationMs >= totalDurationMs
               /\ ~isRecording))
           \/ []<><<CheckCompletionTimer>>_vars)
    /\ ([]<>(~(mergeProcess = "running")) \/ []<><<MergeCloses>>_vars)

LiveSpec == SpecNoStop /\ Fairness

\* ------------------------------------------ the retry-loop recorder
\* attempts of the retry loop explored
MaxLoopAttempts == 5
\* total duration in seconds
targetDuration == 2 * 60
\* wall-clock times (ms) a capture subprocess of the loop may have run
LoopElapsedSet == {3000, 4999, 5000, 60000}

recorderVars ==
    << recordings, totalDurationMs, recordedDurationMs, isRecording,
       isMonitoring, currentProcess, isStreamAvailable, quickCheckInterval,
       sr, procs, contTimers, quickChecks, probes, verifies, rearmTimers,
       mergeProcess, files, concatFile, finalFile, stopped, maxIndex,
       mergeAt, faults >>

\* the while test succeeds and recordSegment(remaining) spawns ffmpeg
LoopSpawn ==
    /\ loopPc = "loop"
    /\ totalRecorded < targetDuration
    /\ attempt <= MaxLoopAttempts
    /\ remaining' = targetDuration - totalRecorded
    /\ loopPc' = "capturing"
    /\ UNCHANGED << totalRecorded, attempt, loopFiles, recorderVars >>

\* the while test fails: recording completed
LoopDone ==
    /\ loopPc = "loop"
    /\ totalRecorded >= targetDuration
    /\ loopPc' = "done"
    /\ UNCHANGED << totalRecorded, attempt, loopFiles, remaining, recorderVars >>

\* the running ffmpeg creates its output file
LoopWrites ==
    /\ loopPc = "capturing"
    /\ attempt \notin loopFiles
    /\ loopFiles' = loopFiles \cup {attempt}
    /\ UNCHANGED << totalRecorded, attempt, loopPc, remaining, recorderVars >>

\* the exit handler (part_000 lines 37-46) and the loop body after the await
\* (lines 59-67); the exit code is not looked at
LoopExit(code, elapsedMs) ==
    /\ loopPc = "capturing"
    /\ LET duration == elapsedMs \div 1000
       IN  IF duration < 5
           THEN /\ loopPc' = "retryWait"
                /\ UNCHANGED << totalRecorded, attempt >>
           ELSE /\ totalRecorded' = totalRecorded + duration
                /\ attempt' = attempt + 1
                /\ loopPc' = "loop"
    /\ UNCHANGED << loopFiles, remaining, recorderVars >>

\* the error handler (lines 48-50): the promise is rejected
LoopError ==
    /\ loopPc = "capturing"
    /\ loopPc' = "retryWait"
    /\ UNCHANGED << totalRecorded, attempt, loopFiles, remaining, recorderVars >>

\* the 15 s wait of the catch block ends (lines 62-67)
LoopRetry ==
    /\ loopPc = "retryWait"
    /\ attempt' = attempt + 1
    /\ loopPc' = "loop"
    /\ UNCHANGED << totalRecorded, loopFiles, remaining, recorderVars >>

NextLoop ==
    \/ LoopSpawn
    \/ LoopDone
    \/ LoopWrites
    \/ \E c \in ExitCodes, e \in LoopElapsedSet : LoopExit(c, e)
    \/ LoopError
    \/ LoopRetry

SpecLoop == Init /\ [][NextLoop]_vars

\* ---------------------------------------------------------------- claims
\* a capture subprocess is spawned in this step
Spawned(p) == p \in procs' /\ p \notin procs /\ p.st = "running"
\* mergeRecordings is invoked in this step
MergeInvokedNow == mergeAt'.invoked /\ ~mergeAt.invoked

\* C1: with a positive target and stop() never called, after the (finitely
\* many) outages and failed attempts, once every check answers available and
\* every capture exits 0 leaving its file, recordedDurationMs reaches
\* totalDurationMs, mergeRecordings is invoked and the promise of
\* startRecording settles
C1_EventuallyMergedAndSettled ==
    (sr # "idle") ~> (/\ recordedDurationMs >= totalDurationMs
                      /\ mergeAt.invoked
                      /\ sr \in {"resolved", "rejected"})

\* the session went through an outage or a failed attempt, recorded its
\* target in more than one segment, merged and resolved
C1_Witness ==
    /\ faults >= 1
    /\ sr = "resolved"
    /\ mergeAt.invoked
    /\ Len(mergeAt.recordings) >= 2
    /\ recordedDurationMs >= totalDurationMs

\* C2: mergeRecordings is invoked only when no capture subprocess is alive
\* and the durations of the retained segments sum to at least the target
C2_MergeOnlyWhenIdleAndComplete ==
    mergeAt.invoked =>
        /\ mergeAt.alive = 0
        /\ SumDurations(mergeAt.recordings) >= totalDurationMs

\* C3: once stop() has been called, mergeRecordings is never invoked
C3_NoMergeAfterStop == [][stopped => ~MergeInvokedNow]_vars

\* C4: once stop() has been called, no capture subprocess is spawned, and
\* neither the quick-check interval nor the deep-probe loop becomes active
C4_StoppedIsTerminal ==
    [][stopped => /\ \A p \in procs' : ~Spawned(p)
                  /\ ~(isMonitoring' /\ ~isMonitoring)
                  /\ ~(quickCheckInterval' /\ ~quickCheckInterval)
                  /\ probes' <= probes]_vars

\* C5: at most one capture subprocess is alive in every reachable state
C5_AtMostOneCapture == Cardinality(procs) <= 1

\* C6: an attempt whose subprocess ran for 4 seconds or less never becomes a
\* retained segment (every retained segment ran for more than 4000 ms), so
\* it adds nothing to the accumulated duration
C6_FastExitIsFailure ==
    /\ \A i \in 1..Len(recordings) : recordings[i].duration > 4000
    /\ recordedDurationMs = SumDurations(recordings)

\* C7: when a multi-segment merge has failed, every input segment file that
\* existed when mergeRecordings was invoked still exists
C7_InputsSurviveFailedMerge ==
    (mergeProcess = "closed" /\ sr = "rejected") =>
        \A i \in 1..Len(mergeAt.recordings) :
            mergeAt.recordings[i].file \in mergeAt.files
                => mergeAt.recordings[i].file \in files

\* C8: the manifest lists the successfully captured segments in the order
\* they were captured, each once
C8_ManifestInCaptureOrder ==
    concatFile.content # << >> =>
        /\ concatFile.content = FilesOf(mergeAt.recordings)
        /\ \A i, j \in 1..Len(concatFile.content) :
               i < j => concatFile.content[i] # concatFile.content[j]

\* C9 as claimed: the index of a newly started attempt is greater than the
\* index of every earlier attempt
C9_IndicesStrictlyIncreasing ==
    [][\A p \in procs' : Spawned(p) => p.index > maxIndex]_vars

\* C9 as amended: the index of a newly started attempt is at least the index
\* of every earlier attempt and greater than the index of every retained
\* segment (an attempt that follows failed attempts reuses their index)
C9_IndicesNeverDecrease ==
    [][\A p \in procs' : Spawned(p) =>
           /\ p.index >= maxIndex
           /\ \A i \in 1..Len(recordings) : recordings[i].index < p.index]_vars

\* an attempt with index 1 is running after a retained segment and at least
\* one outage or failed attempt
C9_Witness ==
    /\ faults >= 1
    /\ Len(recordings) = 1
    /\ \E p \in procs : p.st = "running" /\ p.index = 1

\* C10: when mergeRecordings completes successfully, no segment file and no
\* manifest remain, and the final output file exists
C10_OnlyFinalFileRemains ==
    [][(sr' = "resolved" /\ sr # "resolved") =>
           /\ files' = {}
           /\ ~concatFile'.exists
           /\ finalFile']_vars

\* C11: the session is never both capturing and monitoring: isRecording and
\* isMonitoring are not true together, and while a capture subprocess is
\* alive neither isMonitoring nor the quick-check interval is set
C11_CaptureExcludesMonitoring ==
    /\ ~(isRecording /\ isMonitoring)
    /\ procs # {} => ~isMonitoring /\ ~quickCheckInterval

\* C12: a detection result (the answer of a quick check or of a verification
\* check) that arrives when monitoring has been stopped starts no capture
\* subprocess, so that at most one resumption takes effect per monitoring
\* episode
C12_OneResumptionPerEpisode ==
    [][((quickChecks' < quickChecks \/ verifies' < verifies) /\ ~isMonitoring)
           => \A p \in procs' : ~Spawned(p)]_vars

\* C13: a capture subprocess is spawned only by the start of the session
\* after an available initial check, by a continuation timer, or in the step
\* in which a quick check or a verification check answers available (an
\* unavailable answer is one of the environment's faults); the close or the
\* error of a deep probe spawns none by itself, and neither does a
\* verification check that answers unavailable
C13_ResumedOnlyByShallowCheck ==
    [][/\ \A p \in procs' : Spawned(p) =>
              \/ sr = "check" /\ isStreamAvailable'
              \/ \E chain \in BOOLEAN : contTimers'[chain] < contTimers[chain]
              \/ /\ quickChecks' < quickChecks \/ verifies' < verifies
                 /\ probes' = probes
                 /\ faults' = faults
                 /\ isStreamAvailable'
       /\ (verifies' < verifies /\ faults' > faults)
              => \A p \in procs' : ~Spawned(p)]_vars

\* the first capture of a session that started with an outage is running: it
\* was spawned by resumeRecording from the monitoring callbacks
C13_Witness ==
    /\ faults >= 1
    /\ isStreamAvailable
    /\ ~isMonitoring
    /\ \E p \in procs : ~p.chain /\ p.index = 0 /\ p.st = "running"

\* a capture subprocess of the recorder closes and the attempt is classified
\* as a failure (non-zero code or no output file), or could not be spawned
CaptureFails ==
    \E p \in procs :
        \/ CaptureError(p)
        \/ \E c \in ExitCodes, d \in ElapsedSet :
               /\ ~(c = 0 /\ p.index \in files)
               /\ CaptureClose(p, c, d)
\* an attempt of the retry loop is rejected
LoopFails ==
    \/ LoopError
    \/ \E c \in ExitCodes, e \in LoopElapsedSet :
           e \div 1000 < 5 /\ LoopExit(c, e)

\* C14: a step that classifies a capture attempt as a failure leaves the
\* segment list and the accumulated duration unchanged, and the session is
\* monitoring afterwards without having invoked the merge (recorder), or
\* waits for its retry (retry loop)
C14_FailureKeepsSegments ==
    [][/\ CaptureFails =>
              /\ recordings' = recordings
              /\ recordedDurationMs' = recordedDurationMs
              /\ isMonitoring' /\ quickCheckInterval'
              /\ ~MergeInvokedNow
       /\ LoopFails =>
              /\ totalRecorded' = totalRecorded
              /\ loopPc' = "retryWait"]_vars

\* a capture attempt has failed after a segment was retained: the segment
\* is still there and the session is monitoring
C14_Witness ==
    /\ faults >= 1
    /\ Len(recordings) >= 1
    /\ recordedDurationMs = SumDurations(recordings)
    /\ recordedDurationMs < totalDurationMs
    /\ isMonitoring
    /\ ~isRecording
    /\ ~isStreamAvailable
    /\ procs = {}

\* C15: an attempt is counted (a segment is retained, or the retry loop adds
\* to totalRecorded) only in the step in which its subprocess exits with
\* code 0 while its destination file exists; a spawn error counts nothing
C15_SuccessNeedsExitZeroAndFile ==
    [][/\ \A p \in procs, c \in ExitCodes, d \in ElapsedSet :
              (CaptureClose(p, c, d) /\ recordings' # recordings)
                  => c = 0 /\ p.index \in files
       /\ \A p \in procs : CaptureError(p) => recordings' = recordings
       /\ \A c \in ExitCodes, e \in LoopElapsedSet :
              (LoopExit(c, e) /\ totalRecorded' # totalRecorded)
                  => c = 0 /\ attempt \in loopFiles
       /\ LoopError => totalRecorded' = totalRecorded]_vars

\* the part of C15 about ResilientStreamRecorder
RecorderSuccessNeedsExitZeroAndFile ==
    [][/\ \A p \in procs, c \in ExitCodes, d \in ElapsedSet :
              (CaptureClose(p, c, d) /\ recordings' # recordings)
                  => c = 0 /\ p.index \in files
       /\ \A p \in procs : CaptureError(p) => recordings' = recordings]_vars

\* C16: after the step that classifies a capture attempt as a failure, the
\* destination file of that attempt does not exist
C16_FailedAttemptLeavesNoFile ==
    [][/\ \A p \in procs :
              (\/ CaptureError(p)
               \/ \E c \in ExitCodes, d \in ElapsedSet :
                      /\ ~(c = 0 /\ p.index \in files)
                      /\ CaptureClose(p, c, d))
                  => p.index \notin files'
       /\ LoopFails => attempt \notin loopFiles']_vars

\* the part of C16 about ResilientStreamRecorder
RecorderFailedAttemptLeavesNoFile ==
    [][\A p \in procs :
           (\/ CaptureError(p)
            \/ \E c \in ExitCodes, d \in ElapsedSet :
                   /\ ~(c = 0 /\ p.index \in files)
                   /\ CaptureClose(p, c, d))
               => p.index \notin files']_vars

\* C17: in a step during which a capture subprocess stays running and
\* monitoring has not been started again, no availability check is requested
\* (by the quick-check loop or by the deep-probe loop) and no deep-probe
\* subprocess is spawned
C17_LoopsQuietWhileCapturing ==
    [][(/\ \E p \in procs \cap procs' : p.st = "running"
        /\ ~isMonitoring /\ ~isMonitoring')
           => /\ quickChecks' <= quickChecks
              /\ verifies' <= verifies
              /\ probes' <= probes]_vars

\* C18: at most one deep-probe subprocess is alive or pending re-arm
C18_DeepProbeSingleFlight == probes + rearmTimers <= 1

\* C19: every capture subprocess is spawned with a requested duration (-t)
\* equal to the remaining time, target minus accumulated, rounded up to whole
\* seconds, which is strictly positive; when the remaining time is 0 or less
\* no capture subprocess is spawned (recorder and retry loop)
C19_RequestedIsRemaining ==
    [][/\ \A p \in procs' : Spawned(p) =>
              /\ p.t * 1000 >= totalDurationMs - recordedDurationMs
              /\ (p.t - 1) * 1000 < totalDurationMs - recordedDurationMs
              /\ p.t > 0
       /\ recordedDurationMs >= totalDurationMs
              => \A p \in procs' : ~Spawned(p)
       /\ (loopPc = "loop" /\ loopPc' = "capturing") =>
              /\ remaining' = targetDuration - totalRecorded
              /\ remaining' > 0
       /\ totalRecorded >= targetDuration => loopPc' # "capturing"]_vars

\* a capture is running whose requested duration was rounded up: 3 s for
\* the 2500 ms that remained
C19_Witness ==
    \E p \in procs :
        /\ p.st = "running"
        /\ p.t * 1000 > totalDurationMs - recordedDurationMs
        /\ totalDurationMs - recordedDurationMs > 0
        /\ Len(recordings) >= 1

\* C20: the retained segments are contiguous and without duplicates: the
\* i-th element of recordings (counted from 0) has index i, and the file
\* paths of the retained segments are pairwise distinct
C20_SegmentsContiguous ==
    /\ \A i \in 1..Len(recordings) : recordings[i].index = i - 1
    /\ \A i, j \in 1..Len(recordings) :
           i < j => recordings[i].file # recordings[j].file

\* C21: in every state after startRecording, recordedDurationMs is the sum
\* of the durations of the segments in recordings, and no step of a session
\* decreases recordedDurationMs
C21_DurationIsSumAndMonotone ==
    /\ [](sr # "idle" => recordedDurationMs = SumDurations(recordings))
    /\ [][recordedDurationMs' >= recordedDurationMs]_vars

\* two segments of different lengths are retained after an outage or a
\* failed attempt, and their durations add up to recordedDurationMs
C21_Witness ==
    /\ faults >= 1
    /\ Len(recordings) >= 2
    /\ \E i, j \in 1..Len(recordings) :
           recordings[i].duration # recordings[j].duration
    /\ recordedDurationMs = SumDurations(recordings)
    /\ recordedDurationMs > 0

\* the retry loop counts an attempt only when it ran for 5 s or more
LoopCountsOnlyLongAttempts ==
    [][totalRecorded' # totalRecorded =>
           /\ loopPc = "capturing"
           /\ totalRecorded' - totalRecorded >= 5]_vars

TypeOK ==
    /\ recordings \in Seq([file : Nat, duration : ElapsedSet, index : Nat])
    /\ totalDurationMs \in Nat
    /\ recordedDurationMs \in Nat
    /\ isRecording \in BOOLEAN
    /\ isMonitoring \in BOOLEAN
    /\ isStreamAvailable \in BOOLEAN
    /\ quickCheckInterval \in BOOLEAN
    /\ currentProcess \in Nat
    /\ sr \in {"idle", "check", "awaitSegment", "poll", "merge",
               "resolved", "rejected"}
    /\ \A p \in procs : p.st \in {"running", "signalled"}
    /\ quickChecks \in 0..MaxInFlight
    /\ verifies \in 0..MaxInFlight
    /\ probes + rearmTimers \in 0..MaxDeep
    /\ mergeProcess \in {"none", "running", "closed"}
    /\ faults \in 0..MaxFaults
    /\ totalRecorded \in Nat
    /\ attempt \in 1..(MaxLoopAttempts + 1)
    /\ loopPc \in {"loop", "capturing", "retryWait", "done"}
    /\ loopFiles \subseteq 1..MaxLoopAttempts
    /\ remaining \in 0..targetDuration
    /\ \A p \in procs : p.t \in Nat

\* the state predicates written for ENABLED in Fairness imply ENABLED
FairnessEnabled ==
    /\ quickChecks > 0 => ENABLED <<QuickCheckAnswers>>_vars
    /\ probes > 0 => ENABLED <<ProbeCloses>>_vars
    /\ verifies > 0 => ENABLED <<VerifyAnswers>>_vars
    /\ rearmTimers > 0 => ENABLED <<RearmTimerFire>>_vars
    /\ (\E p \in procs : p.index \in files) => ENABLED <<CaptureCloses>>_vars
    /\ mergeProcess = "running" => ENABLED <<MergeCloses>>_vars
====
